---- MODULE Spec2Model ----
(***************************************************************************)
(* A model of elfo's execution-context core:                               *)
(*   - elfo-core/src/stream.rs : Stream, the lock-protected adapter that   *)
(*     turns a futures::Stream into a pollable Source;                     *)
(*   - elfo-core/src/scope.rs  : Scope and the task-local SCOPE registry.  *)
(* The two parts have separate specifications (StreamSpec, ScopeSpec);     *)
(* each leaves the other part's variables at their initial values.         *)
(***************************************************************************)
EXTENDS Integers, Sequences, FiniteSets, TLC

VARIABLES
    \* ---- stream.rs ----
    state,      \* the StreamState behind the Mutex: Active(stream) or Closed
    nextId,     \* identity of the next underlying sequence handed to new/set/replace
    call,       \* the last call on the adapter: operation, argument, result, pre-state
    hist,       \* history: what has happened to the adapter so far
    initial,    \* the sequence the adapter was constructed over
    nPolls,     \* number of poll_recv calls made so far
    lock,       \* the Mutex: the caller holding it, if any
    frames,     \* per caller: the call it is in and how far it has got
    \* ---- scope.rs ----
    scopes,     \* every Scope instance constructed so far, by instance number
    stores,     \* the AtomicPermissions cells the permissions handles point to
    local,      \* the task-local SCOPE slot as each worker thread sees it
    units,      \* the units of work wrapped by within / sync_within
    stack       \* per worker thread: the units it is executing, innermost last

streamVars == <<state, nextId, call, hist, initial, nPolls>>

scopeVars == <<scopes, stores, local, units, stack>>

lockVars == <<lock, frames>>

vars == <<streamVars, scopeVars, lockVars>>

(***************************************************************************)
(* Bounds.                                                                 *)
(***************************************************************************)
MaxLen == 2         \* longest underlying sequence
MaxStreams == 3     \* underlying sequences ever handed to the adapter
MaxPolls == 4       \* poll_recv calls in one behaviour
MaxScopes == 2      \* Scope instances ever constructed or duplicated

Items == {"a", "b"}

(***************************************************************************)
(* Option<T>, Poll<T>.                                                     *)
(***************************************************************************)
None == [some |-> FALSE]
Some(x) == [some |-> TRUE, val |-> x]

Pending == [poll |-> "Pending"]
Ready(x) == [poll |-> "Ready", val |-> x]

(***************************************************************************)
(* stream.rs                                                               *)
(***************************************************************************)
\* Addr::NULL, the reserved "no sender" address.
AddrNULL == 0

\* MessageKind::RequestAny(..) and MessageKind::Regular { sender }
RequestAny(sender) == [kind |-> "RequestAny", sender |-> sender]
Regular(sender) == [kind |-> "Regular", sender |-> sender]

\* Envelope::new(message, kind).upcast()
Envelope(message, kind) == [message |-> message, kind |-> kind]

\* enum StreamState<S> { Active(Pin<Box<S>>), Closed }
Closed == [tag |-> "Closed"]
Active(stream) == [tag |-> "Active", stream |-> stream]

SeqsUpTo(n) == UNION {[1..k -> Items] : k \in 0..n}

\* An underlying sequence S: the items it has yet to yield, whether it is
\* always ready, and an identity (which object it is).
Sequence(id, items, ready) == [id |-> id, items |-> items, ready |-> ready]

\* S::poll_next: the outcomes an underlying sequence can produce, each with
\* the sequence as the poll leaves it.  A sequence that is not always ready
\* may also answer Pending.
PollNext(s) ==
    (IF s.ready THEN {} ELSE {[res |-> Pending, stream |-> s]})
    \cup
    (IF s.items # <<>>
       THEN {[res |-> Ready(Some(Head(s.items))),
              stream |-> [s EXCEPT !.items = Tail(s.items)]]}
       ELSE {[res |-> Ready(None), stream |-> s]})

\* What poll_recv answers on a Closed adapter (stream.rs:62).
PollClosedReadyNone == Ready(None)
PollClosed == Pending

\* The arms of the match on poll_next's result (stream.rs:65-76): the result
\* of poll_recv and the adapter's next state.
PollActiveNoClose(o) ==
    IF o.res = Pending
      THEN [ret |-> Pending, state |-> Active(o.stream)]
    ELSE IF o.res.val.some
      THEN [ret |-> Ready(Some(Envelope(o.res.val.val, Regular(AddrNULL)))),
            state |-> Active(o.stream)]
      ELSE [ret |-> Ready(None), state |-> Active(o.stream)]
PollActive(o) ==
    IF o.res = Pending
      THEN [ret |-> Pending, state |-> Active(o.stream)]
    ELSE IF o.res.val.some
      THEN [ret |-> Ready(Some(Envelope(o.res.val.val, Regular(AddrNULL)))),
            state |-> Active(o.stream)]
      ELSE [ret |-> Ready(None), state |-> Closed]

\* mem::replace(&mut *self.0.lock(), StreamState::Closed), then
\* !matches!(.., StreamState::Closed) (stream.rs:45-48).
CloseResultAlways == TRUE
CloseResult == state.tag # "Closed"

\* The match in replace (stream.rs:38-41) on the state mem::replace returned.
ReplaceResultNone == None
ReplaceResult == IF state.tag = "Active" THEN Some(state.stream) ELSE None

\* *self.0.lock() = StreamState::Active(Box::pin(stream)) (stream.rs:30).
SetStateOnlyActive(stream) == IF state.tag = "Closed" THEN state ELSE Active(stream)
SetStateKeepOld(stream) == IF state.tag = "Active" THEN state ELSE Active(stream)
SetState(stream) == Active(stream)

Record(op, arg, ret) ==
    [op |-> op, arg |-> arg, ret |-> ret, pre |-> state, hist |-> hist]

\* Stream::new
new(items, ready) ==
    /\ initial = Sequence(1, items, ready)
    /\ state = Active(initial)
    /\ nextId = 2
    /\ call = [op |-> "new", arg |-> Some(initial), ret |-> None,
               pre |-> Closed,
               hist |-> [everClosed |-> FALSE, inert |-> FALSE, installed |-> 0,
                         touched |-> FALSE]]
    /\ hist = [everClosed |-> FALSE, inert |-> FALSE, installed |-> 1,
               touched |-> FALSE]
    /\ nPolls = 0

\* Stream::set
set ==
    /\ nextId <= MaxStreams
    /\ \E items \in SeqsUpTo(MaxLen), ready \in BOOLEAN :
          LET stream == Sequence(nextId, items, ready) IN
          /\ state' = SetState(stream)
          /\ call' = Record("set", Some(stream), None)
    /\ nextId' = nextId + 1
    /\ hist' = [hist EXCEPT !.inert = FALSE, !.installed = nextId,
                            !.touched = TRUE]
    /\ UNCHANGED <<initial, nPolls, scopeVars, lockVars>>

\* Stream::replace
replace ==
    /\ nextId <= MaxStreams
    /\ \E items \in SeqsUpTo(MaxLen), ready \in BOOLEAN :
          LET stream == Sequence(nextId, items, ready) IN
          /\ state' = Active(stream)
          /\ call' = Record("replace", Some(stream), ReplaceResult)
    /\ nextId' = nextId + 1
    /\ hist' = [hist EXCEPT !.inert = FALSE, !.installed = nextId,
                            !.touched = TRUE]
    /\ UNCHANGED <<initial, nPolls, scopeVars, lockVars>>

\* Stream::close
close ==
    /\ state' = Closed
    /\ call' = Record("close", None, CloseResult)
    /\ hist' = [hist EXCEPT !.everClosed = TRUE, !.inert = TRUE,
                            !.touched = TRUE]
    /\ UNCHANGED <<nextId, initial, nPolls, scopeVars, lockVars>>

\* <Stream as Source>::poll_recv
poll_recv ==
    /\ nPolls < MaxPolls
    /\ nPolls' = nPolls + 1
    /\ \/ /\ state.tag = "Closed"
          /\ call' = Record("poll_recv", None, PollClosed)
          /\ UNCHANGED <<state, hist>>
       \/ /\ state.tag = "Active"
          /\ \E o \in PollNext(state.stream) :
                LET r == PollActive(o) IN
                /\ state' = r.state
                /\ call' = Record("poll_recv", None, r.ret)
                /\ hist' = [hist EXCEPT
                              !.everClosed = @ \/ r.state.tag = "Closed",
                              !.inert = @ \/ r.ret = Ready(None)]
    /\ UNCHANGED <<nextId, initial, scopeVars, lockVars>>

StreamInit ==
    \E items \in SeqsUpTo(MaxLen), ready \in BOOLEAN : new(items, ready)

StreamNext == set \/ replace \/ close \/ poll_recv

(***************************************************************************)
(* stream.rs, step by step: the same four operations, called from several  *)
(* call sites at once, each taking the Mutex, working under it and         *)
(* releasing it.  What a call does while it holds the lock is recorded in  *)
(* its frame (under).                                                      *)
(***************************************************************************)
Callers == {1, 2}           \* call sites: the receive loop, a handler

\* The Mutex with nobody holding it; otherwise lock is the holder.
NoCaller == 0

\* A caller between two calls.
IdleFrame ==
    [pc |-> "idle", op |-> "none", arg |-> None, got |-> None, ret |-> None,
     under |-> {}]

LockInit ==
    /\ lock = NoCaller
    /\ frames = [p \in Callers |-> IdleFrame]

\* The sequences passed in at this level: what they hold makes no difference
\* to the lock, only how many items they have left and whether they are
\* always ready.
Blank(n) == [k \in 1..n |-> "a"]

Passed(id) ==
    {Sequence(id, Blank(n), ready) : n \in 0..MaxLen, ready \in BOOLEAN}

\* The state a set / replace / close call swaps in; stream is its argument.
SwapIn(f, stream) == IF f.op = "close" THEN Closed ELSE SetState(stream)

\* What a set / replace / close call returns, from the state it swapped out.
SwapResult(f) ==
    IF f.op = "close" THEN Some(CloseResult)
    ELSE IF f.op = "replace" THEN Some(ReplaceResult)
    ELSE None

\* What a set / replace / close call does under the lock.  set assigns, and
\* the assignment drops the old state; close swaps with mem::replace,
\* matches on what it got and drops it; replace swaps and matches, and moves
\* the old sequence out to its caller.  Dropping an Active state runs the
\* destructor of its sequence.
SwapSteps(f) ==
    IF f.op = "set"
      THEN {"swap"} \cup (IF state.tag = "Active" THEN {"drop"} ELSE {})
    ELSE IF f.op = "close"
      THEN {"inspect", "swap"} \cup (IF state.tag = "Active" THEN {"drop"} ELSE {})
      ELSE {"inspect", "swap"}

\* What the arm taken on poll_next's outcome o does under the lock; the
\* assignment of Closed drops the exhausted sequence.
ArmSteps(o) ==
    IF o.res = Pending THEN {}
    ELSE IF o.res.val.some THEN {"envelope"}
    ELSE {"swap", "drop"}

\* Caller p calls set(stream) or replace(stream); the frame keeps which
\* sequence it is, and what it holds is drawn when it is swapped in.
CallInstall(p) ==
    /\ frames[p].pc = "idle"
    /\ nextId <= MaxStreams
    /\ \E op \in {"set", "replace"} :
          frames' = [frames EXCEPT ![p] =
                        [IdleFrame EXCEPT !.pc = "lock", !.op = op,
                                          !.arg = Some(nextId)]]
    /\ nextId' = nextId + 1
    /\ UNCHANGED <<state, call, hist, initial, nPolls, lock, scopeVars>>

\* Caller p calls close() or poll_recv(cx).
Call(p) ==
    /\ frames[p].pc = "idle"
    /\ \E op \in {"close", "poll_recv"} :
          frames' = [frames EXCEPT ![p] =
                        [IdleFrame EXCEPT !.pc = "lock", !.op = op]]
    /\ UNCHANGED <<streamVars, lock, scopeVars>>

\* self.0.lock(): p gets the Mutex once nobody holds it.
Lock(p) ==
    /\ frames[p].pc = "lock"
    /\ lock = NoCaller
    /\ lock' = p
    /\ frames' = [frames EXCEPT ![p].pc = "locked"]
    /\ UNCHANGED <<streamVars, scopeVars>>

\* set / replace / close under the lock: the assignment or mem::replace, and
\* the match on the state it returned.
Swap(p) ==
    /\ lock = p
    /\ frames[p].pc = "locked"
    /\ frames[p].op \in {"set", "replace", "close"}
    /\ \E stream \in (IF frames[p].op = "close" THEN {initial}
                        ELSE Passed(frames[p].arg.val)) :
          state' = SwapIn(frames[p], stream)
    /\ frames' = [frames EXCEPT ![p] =
                    [@ EXCEPT !.pc = "unlock", !.arg = None,
                        !.ret = SwapResult(frames[p]),
                        !.under = SwapSteps(frames[p])]]
    /\ UNCHANGED <<nextId, call, hist, initial, nPolls, lock, scopeVars>>

\* poll_recv under the lock: the match on the state (stream.rs:60-63).
Inspect(p) ==
    /\ lock = p
    /\ frames[p].pc = "locked"
    /\ frames[p].op = "poll_recv"
    /\ frames' = [frames EXCEPT ![p] =
                    IF state.tag = "Closed"
                      THEN [@ EXCEPT !.pc = "unlock", !.ret = Some(PollClosed),
                               !.under = {"inspect"}]
                      ELSE [@ EXCEPT !.pc = "poll", !.under = {"inspect"}]]
    /\ UNCHANGED <<streamVars, lock, scopeVars>>

\* poll_recv under the lock: stream.as_mut().poll_next(cx) (stream.rs:65).
PollUnderlying(p) ==
    /\ lock = p
    /\ frames[p].pc = "poll"
    /\ \E o \in PollNext(state.stream) :
          /\ state' = Active(o.stream)
          /\ frames' = [frames EXCEPT ![p] =
                          [@ EXCEPT !.pc = "arm", !.got = Some(o),
                              !.under = @ \cup {"poll_next"}]]
    /\ UNCHANGED <<nextId, call, hist, initial, nPolls, lock, scopeVars>>

\* poll_recv under the lock: the arm of the match on what poll_next gave.
Arm(p) ==
    /\ lock = p
    /\ frames[p].pc = "arm"
    /\ LET r == PollActive(frames[p].got.val) IN
          /\ state' = r.state
          /\ frames' = [frames EXCEPT ![p] =
                          [@ EXCEPT !.pc = "unlock", !.got = None,
                              !.ret = Some(r.ret),
                              !.under = @ \cup ArmSteps(frames[p].got.val)]]
    /\ UNCHANGED <<nextId, call, hist, initial, nPolls, lock, scopeVars>>

\* The Mutex after caller p's guard is dropped.
StillLocked(p) == p
Unlocked(p) == NoCaller

\* The guard is dropped: at the end of the statement or of the function.
Unlock(p) ==
    /\ lock = p
    /\ frames[p].pc = "unlock"
    /\ lock' = Unlocked(p)
    /\ frames' = [frames EXCEPT ![p].pc = "return"]
    /\ UNCHANGED <<streamVars, scopeVars>>

\* The call returns frames[p].ret to p.
Return(p) ==
    /\ frames[p].pc = "return"
    /\ frames' = [frames EXCEPT ![p] = IdleFrame]
    /\ UNCHANGED <<streamVars, lock, scopeVars>>

LockNext ==
    \/ \E p \in Callers : CallInstall(p)
    \/ \E p \in Callers : Call(p)
    \/ \E p \in Callers : Lock(p)
    \/ \E p \in Callers : Swap(p)
    \/ \E p \in Callers : Inspect(p)
    \/ \E p \in Callers : PollUnderlying(p)
    \/ \E p \in Callers : Arm(p)
    \/ \E p \in Callers : Unlock(p)
    \/ \E p \in Callers : Return(p)

(***************************************************************************)
(* scope.rs                                                                *)
(***************************************************************************)
Threads == {1, 2}           \* worker threads
TraceIds == {1, 2}          \* TraceId values
PermValues == {0, 1}        \* Permissions values
Units == {1, 2}             \* wrappers of within / sync_within alive at once

\* The (actor, group, meta, perm, logging_limiter) arguments of Scope::new:
\* an actor of each of two groups, with its group's stores.
Idents ==
    { [actor |-> 1, group |-> 10, meta |-> 1, permissions |-> 1, logging_limiter |-> 1],
      [actor |-> 2, group |-> 20, meta |-> 2, permissions |-> 2, logging_limiter |-> 2] }

\* The task-local SCOPE holding no value; otherwise it holds an instance.
NoScope == 0

\* Results: (), a panic, a returned value, Err(AccessError) and Ok(v).
Unit == [unit |-> TRUE]
Panicked == [tag |-> "panic"]
Returned(v) == [tag |-> "value", val |-> v]
AccessError == [ok |-> FALSE]
Ok(v) == [ok |-> TRUE, val |-> v]

\* struct Scope, as Scope::with_trace_id builds it.  from is the instance it
\* was duplicated from (NoScope when constructed); fate tells whether its
\* holder still has it ("held"), it has been moved into within / sync_within
\* ("installed"), or its unit of work has ended and dropped it: by returning
\* ("completed"), by unwinding ("panicked"), or by the wrapping future being
\* dropped before it finished ("cancelled").
NewScopeSwapped(t, i) ==
    [actor |-> i.group, group |-> i.actor, meta |-> i.meta,
     trace_id |-> t,
     permissions |-> i.permissions, logging_limiter |-> i.logging_limiter,
     from |-> NoScope, fate |-> "held"]
NewScope(t, i) ==
    [actor |-> i.actor, group |-> i.group, meta |-> i.meta,
     trace_id |-> t,
     permissions |-> i.permissions, logging_limiter |-> i.logging_limiter,
     from |-> NoScope, fate |-> "held"]

\* #[derive(Clone)], on instance c: the addresses are copied, the Arc handles
\* are shared, the Cell<TraceId> is copied by value.
CloneScope(c) ==
    [actor |-> scopes[c].actor, group |-> scopes[c].group,
     meta |-> scopes[c].meta,
     trace_id |-> scopes[c].trace_id,
     permissions |-> scopes[c].permissions,
     logging_limiter |-> scopes[c].logging_limiter,
     from |-> c, fate |-> "held"]

\* Instance s after its drop: what ended it is kept, its trace id is gone.
Dropped(s, how) == [s EXCEPT !.fate = how, !.trace_id = NoScope]

\* The instance a chain of duplications started from.
RECURSIVE Root(_)
Root(c) == IF scopes[c].from = NoScope THEN c ELSE Root(scopes[c].from)

Scope_actor(c) == scopes[c].actor
Scope_group(c) == scopes[c].group
Scope_meta(c) == scopes[c].meta
Scope_trace_id(c) == scopes[c].trace_id
\* self.permissions.load()
Scope_permissions(c) == stores[scopes[c].permissions]

\* self.trace_id.set(t), on instance c: the instances afterwards.
SetTraceShared(c, t) ==
    [d \in DOMAIN scopes |->
        IF Root(d) = Root(c) THEN [scopes[d] EXCEPT !.trace_id = t]
                             ELSE scopes[d]]
SetTrace(c, t) == [scopes EXCEPT ![c].trace_id = t]

\* What a closure reading every accessor of instance c sees.
View(c) ==
    [actor |-> Scope_actor(c), group |-> Scope_group(c),
     meta |-> Scope_meta(c), trace_id |-> Scope_trace_id(c),
     permissions |-> Scope_permissions(c)]

Top(w) == stack[w][Len(stack[w])]

\* An instance that has not been moved into within / sync_within (both take
\* self by value; were it by reference, every instance would stay usable).
FreeAlways(c) == TRUE
Free(c) == scopes[c].fate = "held"

\* A unit of work: the wrapper's slot, what the guard saved (prev), the
\* context it was wrapped with (scope) and whether it has been resumed after
\* a suspension.
NoUnit ==
    [status |-> "unused", kind |-> "none", scope |-> NoScope, slot |-> NoScope,
     prev |-> NoScope, resumed |-> FALSE]

ScopeInit ==
    /\ scopes = <<>>
    /\ stores = <<0, 0>>
    /\ local = [w \in Threads |-> NoScope]
    /\ units = [u \in Units |-> NoUnit]
    /\ stack = [w \in Threads |-> <<>>]

\* Scope::with_trace_id
with_trace_id(t, i) ==
    /\ Len(scopes) < MaxScopes
    /\ scopes' = Append(scopes, NewScope(t, i))
    /\ UNCHANGED <<stores, local, units, stack, streamVars, lockVars>>

\* Scope::new: with_trace_id(trace_id::generate(), ..)
Scope_new(i) == \E t \in TraceIds : with_trace_id(t, i)

\* Scope::clone, on an instance its holder still has.
CloneDeep(c) ==
    /\ Len(scopes) < MaxScopes
    /\ Free(c)
    /\ stores' = Append(stores, stores[scopes[c].permissions])
    /\ scopes' = Append(scopes, [CloneScope(c) EXCEPT
                                   !.permissions = Len(stores) + 1])
    /\ UNCHANGED <<local, units, stack, streamVars, lockVars>>
Clone(c) ==
    /\ Len(scopes) < MaxScopes
    /\ Free(c)
    /\ scopes' = Append(scopes, CloneScope(c))
    /\ UNCHANGED <<stores, local, units, stack, streamVars, lockVars>>

\* Scope::set_trace_id, on an instance its holder still has.
Scope_set_trace_id(c, t) ==
    /\ Free(c)
    /\ scopes' = SetTrace(c, t)
    /\ UNCHANGED <<stores, local, units, stack, streamVars, lockVars>>

\* An update of a group's AtomicPermissions to another value, while some
\* context of the group is there to see it.
StorePermissions(h, p) ==
    /\ p # stores[h]
    /\ \E c \in DOMAIN scopes :
          scopes[c].permissions = h /\ scopes[c].fate \in {"held", "installed"}
    /\ stores' = [stores EXCEPT ![h] = p]
    /\ UNCHANGED <<scopes, local, units, stack, streamVars, lockVars>>

(***************************************************************************)
(* SCOPE.scope / SCOPE.sync_scope: the value is moved from the wrapper's   *)
(* slot into the thread's task-local for the time of one poll (or of the   *)
(* closure), and a guard moves it back when the poll ends.                 *)
(***************************************************************************)
\* Entering the scope on thread w: the wrapper as it is while running.
Entered(unit, w) ==
    [unit EXCEPT !.status = "running", !.slot = NoScope, !.prev = local[w],
                 !.resumed = (unit.status = "suspended")]

\* The guard's drop: the task-local gets back what it held before, and the
\* wrapper's slot gets the value that was installed.
GuardDropNoRestore(l, unit) == [local |-> l, slot |-> l]
GuardDropLoseSlot(l, unit) == [local |-> unit.prev, slot |-> NoScope]
GuardDrop(l, unit) == [local |-> unit.prev, slot |-> l]

\* The innermost unit of a thread stops running; r is [l: the thread's
\* task-local, us: the units, sk: the thread's stack, sc: the instances].
\* A suspended wrapper keeps its value in its slot; one that has ended is
\* dropped, and the value in its slot with it.
ExitTop(r, status) ==
    LET u == r.sk[Len(r.sk)]
        g == GuardDrop(r.l, r.us[u])
    IN  [l |-> g.local,
         us |-> [r.us EXCEPT ![u] =
                   IF status = "suspended"
                     THEN [@ EXCEPT !.status = status, !.slot = g.slot,
                                    !.prev = NoScope]
                     ELSE NoUnit],
         sk |-> SubSeq(r.sk, 1, Len(r.sk) - 1),
         sc |-> IF status = "suspended" \/ g.slot = NoScope
                  THEN r.sc
                  ELSE [r.sc EXCEPT ![g.slot] =
                          Dropped(@, IF status = "done" THEN "completed"
                                                        ELSE status)]]

\* A panic unwinds every unit the thread is executing, innermost first.
RECURSIVE Unwind(_)
Unwind(r) == IF r.sk = <<>> THEN r ELSE Unwind(ExitTop(r, "panicked"))

Here(w) == [l |-> local[w], us |-> units, sk |-> stack[w], sc |-> scopes]

Leave(w, r) ==
    /\ local' = [local EXCEPT ![w] = r.l]
    /\ units' = r.us
    /\ stack' = [stack EXCEPT ![w] = r.sk]
    /\ scopes' = r.sc

\* The wrapper a new unit of work gets.
NextUnit(u) ==
    /\ units[u].status = "unused"
    /\ \A v \in Units : v < u => units[v].status # "unused"

\* Scope::within: wraps the future; nothing runs before the first poll.
within(u, c) ==
    /\ NextUnit(u)
    /\ Free(c)
    /\ units' = [units EXCEPT ![u] = [NoUnit EXCEPT !.status = "created",
                                        !.kind = "async", !.scope = c, !.slot = c]]
    /\ scopes' = [scopes EXCEPT ![c].fate = "installed"]
    /\ UNCHANGED <<stores, local, stack, streamVars, lockVars>>

\* The future returned by within is polled on thread w, by the executor or
\* by the unit the thread is executing.
Poll(u, w) ==
    /\ units[u].kind = "async"
    /\ units[u].status \in {"created", "suspended"}
    /\ units' = [units EXCEPT ![u] = Entered(units[u], w)]
    /\ local' = [local EXCEPT ![w] = units[u].slot]
    /\ stack' = [stack EXCEPT ![w] = Append(@, u)]
    /\ UNCHANGED <<scopes, stores, streamVars, lockVars>>

\* Scope::sync_within, called on thread w: the closure starts at once.
sync_within(u, c, w) ==
    /\ NextUnit(u)
    /\ Free(c)
    /\ units' = [units EXCEPT ![u] =
                    Entered([NoUnit EXCEPT !.kind = "sync", !.scope = c,
                                           !.slot = c], w)]
    /\ local' = [local EXCEPT ![w] = c]
    /\ stack' = [stack EXCEPT ![w] = Append(@, u)]
    /\ scopes' = [scopes EXCEPT ![c].fate = "installed"]
    /\ UNCHANGED <<stores, streamVars, lockVars>>

\* The future of the innermost unit of thread w returns Poll::Pending.
Suspend(w) ==
    /\ stack[w] # <<>>
    /\ units[Top(w)].kind = "async"
    /\ Leave(w, ExitTop(Here(w), "suspended"))
    /\ UNCHANGED <<stores, streamVars, lockVars>>

\* The innermost unit of thread w completes.
Complete(w) ==
    /\ stack[w] # <<>>
    /\ Leave(w, ExitTop(Here(w), "done"))
    /\ UNCHANGED <<stores, streamVars, lockVars>>

\* The code of the innermost unit of thread w panics.
Panic(w) ==
    /\ stack[w] # <<>>
    /\ Leave(w, Unwind(Here(w)))
    /\ UNCHANGED <<stores, streamVars, lockVars>>

\* The trace ids context c can have while the destructor of its wrapped
\* future runs under it: the one it had, or one the destructor gave it with
\* set_trace_id.
DropTraces(c) ==
    {scopes[c].trace_id} \cup {SetTrace(c, t)[c].trace_id : t \in TraceIds}

\* What the destructor of a wrapped future can leave behind when it runs
\* under its context c: nothing, or a duplicate it got from try_expose,
\* which has the trace id c had at that call.
DropLeaves(c) ==
    {<<>>} \cup
    (IF Len(scopes) < MaxScopes
       THEN {<<[CloneScope(c) EXCEPT !.trace_id = t]>> : t \in DropTraces(c)}
       ELSE {})

\* The future returned by within is dropped on thread w before it has
\* finished, not yet polled or suspended.  Not yet polled, the async fn has
\* not built the wrapper: its arguments are dropped and no registry is
\* touched.  Suspended, the drop of the wrapper installs the value of its
\* slot on w for the time the wrapped future's destructor runs, and the
\* guard puts back what w's registry held; then the wrapper goes, and the
\* value in its slot with it.
Cancel(u, w) ==
    /\ units[u].kind = "async"
    /\ units[u].status \in {"created", "suspended"}
    /\ LET c == units[u].slot
           g == GuardDrop(c, Entered(units[u], w))
       IN  IF units[u].status = "created"
             THEN /\ local' = local
                  /\ scopes' = [scopes EXCEPT ![c] = Dropped(@, "cancelled")]
             ELSE /\ local' = [local EXCEPT ![w] = g.local]
                  /\ \E left \in DropLeaves(c) :
                        scopes' = [scopes EXCEPT ![c] = Dropped(@, "cancelled")]
                                  \o left
    /\ units' = [units EXCEPT ![u] = NoUnit]
    /\ UNCHANGED <<stores, stack, streamVars, lockVars>>

(***************************************************************************)
(* The ambient accessors, as the code running on thread w calls them.  The *)
(* ones that only read SCOPE are operators giving the call's result; the   *)
(* ones that construct or change an instance are also actions.             *)
(***************************************************************************)
\* The closures the accessors pass to SCOPE.with / SCOPE.try_with, by name,
\* applied to instance c.  "view" is a caller's closure reading every
\* accessor; "set_trace_id" returns () (its effect is in set_trace_id).
Closure(f, c) ==
    CASE f = "view" -> View(c)
      [] f = "trace_id" -> Scope_trace_id(c)
      [] f = "meta" -> Scope_meta(c)
      [] f = "clone" -> CloneScope(c)
      [] f = "set_trace_id" -> Unit

\* SCOPE.try_with(f): f applied to the installed instance, or AccessError.
LocalKey_try_with(w, f) ==
    IF local[w] = NoScope THEN AccessError ELSE Ok(Closure(f, local[w]))

\* Result::ok
ok(r) == IF r.ok THEN Some(r.val) ELSE None

\* Option::expect
expect_OrNone(o) == IF o.some THEN Returned(o.val) ELSE None
expect(o) == IF o.some THEN Returned(o.val) ELSE Panicked

\* SCOPE.with(f): panics where try_with gives AccessError.
LocalKey_with(w, f) == expect(ok(LocalKey_try_with(w, f)))

\* scope::try_with(f)
try_with(w, f) == ok(LocalKey_try_with(w, f))

\* scope::with(f): try_with(f).expect(..)
with(w, f) == expect(try_with(w, f))

\* scope::trace_id: with(Scope::trace_id)
trace_id(w) == with(w, "trace_id")

\* scope::try_trace_id: try_with(Scope::trace_id)
try_trace_id(w) == try_with(w, "trace_id")

\* scope::meta: with(|scope| scope.meta().clone())
meta(w) == with(w, "meta")

\* scope::try_meta: try_with(|scope| scope.meta().clone())
try_meta(w) == try_with(w, "meta")

\* What scope::expose returns: SCOPE.with(Clone::clone)
expose_result(w) == LocalKey_with(w, "clone")

\* What scope::try_expose returns: SCOPE.try_with(Clone::clone).ok()
try_expose_result(w) == ok(LocalKey_try_with(w, "clone"))

\* What scope::set_trace_id returns: with(|scope| scope.set_trace_id(..))
set_trace_id_result(w) == with(w, "set_trace_id")

\* A call on thread w has panicked: the units the thread is executing
\* unwind.  (Outside every unit the panic ends the caller only, which
\* changes nothing here: that step is left out.)
Abort(w) ==
    /\ stack[w] # <<>>
    /\ Leave(w, Unwind(Here(w)))
    /\ UNCHANGED <<stores, streamVars, lockVars>>

\* scope::expose: the caller gets a duplicate of the installed instance.
expose(w) ==
    LET r == expose_result(w) IN
    IF r = Panicked THEN Abort(w)
    ELSE /\ Len(scopes) < MaxScopes
         /\ scopes' = Append(scopes, r.val)
         /\ UNCHANGED <<stores, local, units, stack, streamVars, lockVars>>

\* scope::try_expose
try_expose(w) ==
    LET r == try_expose_result(w) IN
    /\ r.some
    /\ Len(scopes) < MaxScopes
    /\ scopes' = Append(scopes, r.val)
    /\ UNCHANGED <<stores, local, units, stack, streamVars, lockVars>>

\* scope::set_trace_id
set_trace_id(w, t) ==
    IF set_trace_id_result(w) = Panicked THEN Abort(w)
    ELSE /\ scopes' = SetTrace(local[w], t)
         /\ UNCHANGED <<stores, local, units, stack, streamVars, lockVars>>

ScopeNext ==
    \/ \E i \in Idents : Scope_new(i)
    \/ \E i \in Idents, t \in TraceIds : with_trace_id(t, i)
    \/ \E c \in DOMAIN scopes : Clone(c)
    \/ \E c \in DOMAIN scopes, t \in TraceIds : Scope_set_trace_id(c, t)
    \/ \E h \in DOMAIN stores, p \in PermValues : StorePermissions(h, p)
    \/ \E u \in DOMAIN units, c \in DOMAIN scopes : within(u, c)
    \/ \E u \in DOMAIN units, c \in DOMAIN scopes, w \in Threads : sync_within(u, c, w)
    \/ \E u \in DOMAIN units, w \in Threads : Poll(u, w)
    \/ \E w \in Threads : Suspend(w)
    \/ \E w \in Threads : Complete(w)
    \/ \E w \in Threads : Panic(w)
    \/ \E u \in DOMAIN units, w \in Threads : Cancel(u, w)
    \/ \E w \in Threads : expose(w)
    \/ \E w \in Threads : try_expose(w)
    \/ \E w \in Threads, t \in TraceIds : set_trace_id(w, t)

(***************************************************************************)
(* Specifications.                                                         *)
(***************************************************************************)
\* The adapter, with no Scope in play.
StreamSpecInit == StreamInit /\ ScopeInit /\ LockInit
StreamSpec == StreamSpecInit /\ [][StreamNext]_vars

\* Scopes and the task-local, beside an adapter nobody calls.
ScopeSpecInit == new(<<>>, TRUE) /\ ScopeInit /\ LockInit
ScopeSpec == ScopeSpecInit /\ [][ScopeNext]_vars

\* The adapter called from several call sites, step by step.
LockSpecInit ==
    /\ \E stream \in Passed(1) : new(stream.items, stream.ready)
    /\ ScopeInit
    /\ LockInit
LockSpec == LockSpecInit /\ [][LockNext]_vars

\* The same, with what scheduling gives: a call that holds the lock runs on
\* (nothing under the lock blocks: poll_next returns at once), and a
\* caller waiting in lock() is not passed over for ever (parking_lot's
\* Mutex is eventually fair).
LockFair ==
    \A p \in Callers :
        /\ WF_vars(Swap(p)) /\ WF_vars(Inspect(p)) /\ WF_vars(PollUnderlying(p))
        /\ WF_vars(Arm(p)) /\ WF_vars(Unlock(p))
        /\ SF_vars(Lock(p))
LockLiveSpec == LockSpecInit /\ [][LockNext]_vars /\ LockFair

(***************************************************************************)
(* Claims about stream.rs, checked under StreamSpec.                       *)
(* call.pre and call.hist are the adapter's state and history at the       *)
(* moment the last call was made; state is the adapter right after it.     *)
(***************************************************************************)
\* What the k-th poll of an adapter over a finite, always-ready sequence is
\* expected to answer: the items in order, then exhaustion once, then
\* not-ready.
ExpectedPoll(items, k) ==
    IF k <= Len(items) THEN "item"
    ELSE IF k = Len(items) + 1 THEN "exhausted"
    ELSE "not ready"

PollKind(ret) ==
    IF ret = Pending THEN "not ready"
    ELSE IF ret = Ready(None) THEN "exhausted"
    ELSE "item"

\* C1: an adapter constructed over a finite always-ready sequence of n items,
\* on which set/replace/close are never called, answers its k-th poll_recv
\* with the k-th item (k <= n), with Ready(None) for k = n+1, moving to
\* Closed, and with Pending for every k > n+1.
C1_FiniteSequence ==
    (initial.ready /\ ~hist.touched /\ nPolls >= 1) =>
        /\ call.op = "poll_recv"
        /\ PollKind(call.ret) = ExpectedPoll(initial.items, nPolls)
        /\ nPolls <= Len(initial.items) =>
              call.ret.val.val.message = initial.items[nPolls]
        /\ (state = Closed) <=> (nPolls > Len(initial.items))

C1_Witness ==
    /\ initial.ready /\ ~hist.touched
    /\ Len(initial.items) = 2
    /\ nPolls = 4
    /\ call.ret = Pending
    /\ state = Closed

\* C2 as stated: once the adapter has been Closed, no later poll_recv returns
\* Ready(None), in every execution (set and replace included).
C2_Original ==
    (call.op = "poll_recv" /\ call.hist.everClosed) => call.ret # Ready(None)

\* C2 amended: once the adapter has become Closed, no poll_recv returns
\* Ready(None) for as long as no set or replace has been called since.
C2_InertUntilReactivated ==
    (call.op = "poll_recv" /\ call.hist.inert) =>
        /\ call.ret # Ready(None)
        /\ state = Closed

C2_Witness ==
    /\ call.op = "poll_recv"
    /\ call.hist.inert
    /\ call.ret = Pending
    /\ nPolls >= 2

\* C3: close() returns true exactly when the adapter was Active at the call
\* and false exactly when it was Closed; the adapter is Closed afterwards.
C3_Close ==
    call.op = "close" =>
        /\ call.ret = TRUE <=> call.pre.tag = "Active"
        /\ call.ret = FALSE <=> call.pre = Closed
        /\ state = Closed

C3_Witness ==
    /\ call.op = "close"
    /\ call.pre = Closed
    /\ call.ret = FALSE
    /\ hist.touched

\* C4: replace(seq) on an Active adapter returns the sequence it wrapped, the
\* one installed by the most recent new/set/replace; on a Closed adapter it
\* returns None; the adapter is Active wrapping seq afterwards.
C4_Replace ==
    call.op = "replace" =>
        /\ call.pre.tag = "Active" =>
              /\ call.ret = Some(call.pre.stream)
              /\ call.ret.val.id = call.hist.installed
        /\ call.pre = Closed => call.ret = None
        /\ state = Active(call.arg.val)

C4_Witness ==
    /\ call.op = "replace"
    /\ call.pre.tag = "Active"
    /\ call.ret.some
    /\ call.ret.val.id = 2
    /\ call.hist.installed = 2
    /\ call.ret.val.items = <<"b">>
    /\ state.stream.id = 3

\* C5: set(seq) leaves the adapter Active wrapping seq, whether it was
\* Active or Closed before (Closed by natural exhaustion included).
C5_Set ==
    call.op = "set" => state = Active(call.arg.val)

C5_Witness ==
    /\ call.op = "set"
    /\ call.pre = Closed
    /\ ~call.hist.touched
    /\ state.tag = "Active"

(***************************************************************************)
(* Claims about scope.rs, checked under ScopeSpec.                         *)
(***************************************************************************)
\* What a read of context c is expected to give: the addresses and metadata
\* c was constructed with, its trace id now, its group's permissions now.
Expected(c) ==
    [actor |-> scopes[c].actor, group |-> scopes[c].group,
     meta |-> scopes[c].meta, trace_id |-> scopes[c].trace_id,
     permissions |-> stores[scopes[c].permissions]]

\* The same of a duplicate that has just been returned to its caller.
Seen(dup) ==
    [actor |-> dup.actor, group |-> dup.group, meta |-> dup.meta,
     trace_id |-> dup.trace_id, permissions |-> stores[dup.permissions]]

\* The context the unit of work running on thread w was installed with.
Own(w) == units[Top(w)].scope

\* C6: while a unit of work runs under the context it was installed with,
\* through any number of suspensions and resumptions, every ambient read it
\* makes observes that context's actor, group, trace id and permissions;
\* code running outside every unit, as after the unit has completed, gets
\* absence from the tolerant accessors.
C6_AmbientReads ==
    \A w \in Threads :
        IF stack[w] # <<>>
          THEN /\ with(w, "view") = Returned(Expected(Own(w)))
               /\ try_with(w, "view") = Some(Expected(Own(w)))
               /\ trace_id(w) = Returned(scopes[Own(w)].trace_id)
               /\ try_trace_id(w) = Some(scopes[Own(w)].trace_id)
               /\ meta(w) = Returned(scopes[Own(w)].meta)
               /\ try_meta(w) = Some(scopes[Own(w)].meta)
               /\ expose_result(w).tag = "value"
               /\ Seen(expose_result(w).val) = Expected(Own(w))
               /\ try_expose_result(w).some
               /\ Seen(try_expose_result(w).val) = Expected(Own(w))
          ELSE /\ try_expose_result(w) = None
               /\ try_with(w, "view") = None

C6_Witness ==
    \E w, v \in Threads :
        /\ stack[w] # <<>>
        /\ units[Top(w)].kind = "async"
        /\ units[Top(w)].resumed
        /\ try_with(w, "view") = Some(Expected(Own(w)))
        /\ stack[v] = <<>>
        /\ \E c \in DOMAIN scopes : scopes[c].fate = "completed"
        /\ try_expose_result(v) = None

\* C7: with several units of work interleaved on the worker threads, the
\* registry of a thread holds the context of the unit that thread is
\* executing and of no other unit, and holds nothing while the thread is
\* executing no installed unit.
C7_OwnContextOnly ==
    \A w \in Threads :
        /\ local[w] # NoScope => stack[w] # <<>>
        /\ stack[w] # <<>> =>
              /\ local[w] = Own(w)
              /\ \A u \in Units \ {Top(w)} :
                    units[u].status # "unused" => local[w] # units[u].scope
              /\ \A v \in Threads \ {w} : local[v] # local[w]

C7_Witness ==
    /\ stack[1] # <<>> /\ stack[2] # <<>>
    /\ units[Top(1)].resumed /\ units[Top(2)].resumed
    /\ scopes[local[1]].actor # scopes[local[2]].actor
    /\ try_with(1, "view") # try_with(2, "view")

\* The instances whose trace id a step leaves as it was.
TraceKept(c) == scopes'[c].trace_id = scopes[c].trace_id

\* C8: a duplicate made by clone or by expose starts with the trace id its
\* original has at that moment, and a set_trace_id on one instance changes
\* that instance only: every other instance, its duplicates and its
\* original included, keeps the trace id it had.  A duplicate exposed by a
\* cancelled unit's destructor has the trace id its context had before the
\* drop or one the destructor set, and the drop changes no other instance.
C8_TraceIndependent ==
    [][ scopes' # scopes =>
        /\ \A c \in DOMAIN scopes :
              (Clone(c) \/ \E w \in Threads :
                              local[w] = c /\ (expose(w) \/ try_expose(w))) =>
                  /\ scopes'[Len(scopes')].trace_id = scopes[c].trace_id
                  /\ \A d \in DOMAIN scopes : TraceKept(d)
        /\ \A c \in DOMAIN scopes, t \in TraceIds :
              (Scope_set_trace_id(c, t) \/ \E w \in Threads :
                              local[w] = c /\ set_trace_id(w, t)) =>
                  /\ scopes'[c].trace_id = t
                  /\ \A d \in DOMAIN scopes \ {c} : TraceKept(d)
        /\ \A u \in Units, w \in Threads :
              (Cancel(u, w) /\ Len(scopes') > Len(scopes)) =>
                  /\ scopes'[Len(scopes')].trace_id \in
                        DropTraces(units[u].slot)
                  /\ \A d \in DOMAIN scopes \ {units[u].slot} : TraceKept(d)
      ]_vars

C8_Witness ==
    \E c, d \in DOMAIN scopes :
        /\ scopes[d].from = c
        /\ scopes[d].trace_id # scopes[c].trace_id
        /\ scopes[c].fate = "installed"
        /\ \E w \in Threads : local[w] = c

\* C9: the original and every duplicate read their permissions from one
\* store: permissions() on each of them returns what the store of the
\* instance they descend from holds now, however their trace ids differ.
C9_SharedPermissions ==
    \A c \in DOMAIN scopes :
        Scope_permissions(c) = stores[scopes[Root(c)].permissions]

C9_Witness ==
    \E c, d \in DOMAIN scopes :
        /\ scopes[d].from = c
        /\ scopes[d].trace_id # scopes[c].trace_id
        /\ stores[scopes[c].permissions] = 1
        /\ Scope_permissions(c) = 1
        /\ Scope_permissions(d) = 1

\* C10: on a thread executing no installed unit, every fatal accessor
\* panics and every tolerant accessor returns None; on a thread executing
\* an installed unit, no accessor panics and none returns None.
C10_FatalAndTolerant ==
    \A w \in Threads :
        IF stack[w] = <<>>
          THEN /\ expose_result(w) = Panicked
               /\ with(w, "view") = Panicked
               /\ trace_id(w) = Panicked
               /\ set_trace_id_result(w) = Panicked
               /\ meta(w) = Panicked
               /\ try_expose_result(w) = None
               /\ try_with(w, "view") = None
               /\ try_trace_id(w) = None
               /\ try_meta(w) = None
          ELSE /\ expose_result(w).tag = "value"
               /\ with(w, "view").tag = "value"
               /\ trace_id(w).tag = "value"
               /\ set_trace_id_result(w).tag = "value"
               /\ meta(w).tag = "value"
               /\ try_expose_result(w).some
               /\ try_with(w, "view").some
               /\ try_trace_id(w).some
               /\ try_meta(w).some

C10_Witness ==
    \E w, v \in Threads :
        /\ stack[w] = <<>>
        /\ with(w, "view") = Panicked
        /\ try_with(w, "view") = None
        /\ stack[v] # <<>>
        /\ with(v, "view").tag = "value"
        /\ try_with(v, "view").some

\* What the registry of thread w held before the k-th unit on its stack was
\* installed: the context of the unit enclosing it, or nothing.
Before(w, k) == IF k = 1 THEN NoScope ELSE units[stack[w][k - 1]].scope

\* No thread's registry holds instance c after the step.
Released(c) == \A v \in Threads : local'[v] # c

\* C11: when a unit of work installed by within or sync_within ends, by
\* completing, by panicking or by being cancelled (its future dropped before
\* it finished), the registry afterwards holds what it held before the
\* installation, nothing if nothing was installed, and no registry holds
\* the context of the unit that ended.
C11_RegistryRestored ==
    [][ units' # units =>
        /\ \A w \in Threads :
              Complete(w) =>
                  /\ local'[w] = Before(w, Len(stack[w]))
                  /\ Released(Own(w))
        /\ \A w \in Threads :
              Panic(w) =>
                  /\ local'[w] = Before(w, 1)
                  /\ \A k \in DOMAIN stack[w] : Released(units[stack[w][k]].scope)
        /\ \A u \in Units, w \in Threads :
              Cancel(u, w) =>
                  /\ local' = local
                  /\ Released(units[u].scope)
      ]_vars

C11_Witness ==
    /\ \E c \in DOMAIN scopes : scopes[c].fate = "cancelled"
    /\ \E c \in DOMAIN scopes : scopes[c].fate = "panicked"
    /\ \A w \in Threads : local[w] = NoScope /\ try_expose_result(w) = None

\* C12: the ambient set_trace_id(t) changes the trace id of the instance
\* installed for the calling unit and of no other instance: right after it
\* the unit's trace_id() and expose() give t, and duplicates made earlier
\* keep the trace id they had; the trace id of an installed instance changes
\* in no other step, so the unit keeps reading t across suspensions; and a
\* context constructed afterwards has the trace id it was constructed with.
C12_AmbientSetTraceId ==
    [][ scopes' # scopes =>
        /\ \A w \in Threads, t \in TraceIds :
              (stack[w] # <<>> /\ set_trace_id(w, t)) =>
                  /\ trace_id(w)' = Returned(t)
                  /\ try_trace_id(w)' = Some(t)
                  /\ expose_result(w)'.val.trace_id = t
                  /\ \A d \in DOMAIN scopes \ {Own(w)} : TraceKept(d)
        /\ \A c \in DOMAIN scopes :
              (scopes[c].fate = "installed" /\ scopes'[c].fate = "installed"
                    /\ ~TraceKept(c)) =>
                  \E w \in Threads, t \in TraceIds :
                      /\ stack[w] # <<>> /\ Own(w) = c
                      /\ set_trace_id(w, t)
        /\ \A i \in Idents, t \in TraceIds :
              with_trace_id(t, i) =>
                  /\ scopes'[Len(scopes')].trace_id = t
                  /\ \A d \in DOMAIN scopes : TraceKept(d)
      ]_vars

C12_Witness ==
    \E w \in Threads, d \in DOMAIN scopes :
        /\ stack[w] # <<>>
        /\ units[Top(w)].resumed
        /\ scopes[d].from = Own(w)
        /\ scopes[d].fate = "held"
        /\ trace_id(w) = Returned(2)
        /\ expose_result(w).val.trace_id = 2
        /\ scopes[d].trace_id = 1

\* C13: actor() and group() of a context return the addresses passed at its
\* construction, and go on returning them through every step (set_trace_id,
\* permission updates, duplications, installations, the end of its unit);
\* a duplicate returns the addresses of the context it was made from.
C13_ActorGroupConstant ==
    [][ /\ \A i \in Idents, t \in TraceIds :
              with_trace_id(t, i) =>
                  \A n \in {Len(scopes) + 1} :
                      /\ Scope_actor(n)' = i.actor
                      /\ Scope_group(n)' = i.group
        /\ \A c \in DOMAIN scopes :
              /\ Scope_actor(c)' = Scope_actor(c)
              /\ Scope_group(c)' = Scope_group(c)
        /\ \A d \in DOMAIN scopes', c \in DOMAIN scopes :
              scopes'[d].from = c =>
                  /\ Scope_actor(d)' = Scope_actor(c)'
                  /\ Scope_group(d)' = Scope_group(c)'
      ]_vars

C13_Witness ==
    \E c, d \in DOMAIN scopes :
        /\ scopes[d].from = c
        /\ scopes[c].fate = "installed"
        /\ scopes[d].trace_id # scopes[c].trace_id
        /\ Scope_permissions(c) = 1
        /\ Scope_actor(c) = 2 /\ Scope_group(c) = 20
        /\ Scope_actor(d) = 2 /\ Scope_group(d) = 20

\* The units of work that own instance c, and the places that hold it: a
\* thread's registry, a wrapper's slot, a guard's saved value.
Owners(c) == {u \in Units : units[u].status # "unused" /\ units[u].scope = c}

Places(c) ==
    Cardinality({w \in Threads : local[w] = c})
    + Cardinality({u \in Units : units[u].slot = c})
    + Cardinality({u \in Units : units[u].prev = c})

\* C15: a context instance is held by one unit of work at a time: an
\* installed instance belongs to exactly one unit and is in exactly one
\* place, an instance its holder still has or that was dropped is in none,
\* a registry holds an instance only on the thread running the unit that
\* owns it, and two threads never run units on the same instance.
C15_SingleHolder ==
    /\ \A c \in DOMAIN scopes :
          /\ Cardinality(Owners(c)) = IF scopes[c].fate = "installed" THEN 1 ELSE 0
          /\ Places(c) = IF scopes[c].fate = "installed" THEN 1 ELSE 0
          /\ \A w \in Threads : local[w] = c => (stack[w] # <<>> /\ Own(w) = c)
    /\ \A w, v \in Threads :
          (w # v /\ stack[w] # <<>> /\ stack[v] # <<>>) =>
              \A j \in DOMAIN stack[w], k \in DOMAIN stack[v] :
                  /\ stack[w][j] # stack[v][k]
                  /\ units[stack[w][j]].scope # units[stack[v][k]].scope

\* Two threads run units of the same actor at once, each under its own
\* duplicate.
C15_Witness ==
    /\ stack[1] # <<>> /\ stack[2] # <<>>
    /\ scopes[Own(2)].from = Own(1)
    /\ Scope_actor(Own(1)) = Scope_actor(Own(2))
    /\ local[1] = Own(1) /\ local[2] = Own(2)

(***************************************************************************)
(* Further claims about stream.rs, checked under StreamSpec.               *)
(***************************************************************************)
\* The last call was a poll_recv that returned an item.
ReturnedItem ==
    /\ call.op = "poll_recv"
    /\ call.ret # Pending
    /\ call.ret.val.some

\* C14: every item poll_recv returns is an envelope carrying exactly the
\* item the underlying sequence yielded (the first it had left), of kind
\* Regular, with the null address as its sender; no envelope of another kind
\* or with another sender is produced.
C14_RegularNullSender ==
    ReturnedItem =>
        /\ call.pre.tag = "Active"
        /\ call.pre.stream.items # <<>>
        /\ call.ret.val.val.message = Head(call.pre.stream.items)
        /\ call.ret.val.val.kind.kind = "Regular"
        /\ call.ret.val.val.kind.sender = AddrNULL

C14_Witness ==
    /\ ReturnedItem
    /\ call.hist.touched
    /\ call.hist.installed = 2
    /\ call.ret.val.val = [message |-> "b", kind |-> [kind |-> "Regular", sender |-> 0]]
    /\ nPolls >= 2

(***************************************************************************)
(* Claims about the adapter under concurrent callers, checked under        *)
(* LockSpec and LockLiveSpec.                                              *)
(***************************************************************************)
\* The step is the one in which caller p's call works out its result.
Computes(p) ==
    /\ frames[p].pc \in {"locked", "arm"}
    /\ frames'[p].pc = "unlock"

\* The result a call is about to return reports a transition to Closed.
Reports(f) ==
    \/ f.op = "close" /\ f.ret = Some(TRUE)
    \/ f.op = "poll_recv" /\ f.ret = Some(Ready(None))

\* C16: with set, replace, close and poll_recv called from several call
\* sites, every step that takes the adapter from Active to Closed is the
\* step of one call, a close() that returns true or a poll_recv that
\* returns Ready(None); and a close() returns true, a poll_recv returns
\* Ready(None), only if its own step took the adapter from Active to Closed.
C16_ReportedOnce ==
    [][ /\ Cardinality({p \in Callers : frames'[p] # frames[p]}) <= 1
        /\ (state.tag = "Active" /\ state'.tag = "Closed") =>
              \E p \in Callers : Computes(p) /\ Reports(frames'[p])
        /\ \A p \in Callers :
              (Computes(p) /\ Reports(frames'[p])) =>
                  (state.tag = "Active" /\ state'.tag = "Closed")
      ]_vars

\* A close() that waited for the lock behind an exhausting poll_recv: the
\* poll reports the transition, the close returns false.
C16_Witness ==
    \E p, q \in Callers :
        /\ frames[p].op = "poll_recv" /\ frames[p].pc = "return"
        /\ frames[p].ret = Some(Ready(None))
        /\ frames[q].op = "close" /\ frames[q].pc = "return"
        /\ frames[q].ret = Some(FALSE)
        /\ state = Closed
        /\ nextId = 2

\* The lock is held by p exactly while p is between lock() and the drop of
\* its guard.
HeldInsideCall ==
    \A p \in Callers :
        lock = p <=> frames[p].pc \in {"locked", "poll", "arm", "unlock"}

\* C17: the lock is held only inside one call of set, replace, close or
\* poll_recv and is released before the call returns, also when poll_recv
\* returns Pending, so not while the polling task is suspended; and a set,
\* replace or close waiting for the lock gets it in the end.
C17_LockReleased ==
    /\ []HeldInsideCall
    /\ \A p \in Callers :
          (frames[p].pc = "lock" /\ frames[p].op \in {"set", "replace", "close"})
              ~> (lock = p)

\* A poll_recv is about to return Pending on an Active adapter while
\* another call site holds the lock for its set, replace or close.
C17_Witness ==
    \E p, q \in Callers :
        /\ frames[p].op = "poll_recv" /\ frames[p].pc = "return"
        /\ frames[p].ret = Some(Pending)
        /\ lock = q
        /\ frames[q].op \in {"set", "replace", "close"}
        /\ state.tag = "Active"

\* C18 as stated: while the lock is held nothing is done but inspecting
\* the Active/Closed state and swapping it: no poll of the underlying
\* sequence, no envelope construction.
C18_Original ==
    \A p \in Callers : frames[p].under \subseteq {"inspect", "swap"}

\* C19: poll_recv changes the adapter's state only when the underlying
\* sequence reports exhaustion.  On a Closed adapter it returns Pending,
\* leaves it Closed and polls nothing; on an Active adapter it returns
\* Pending exactly when poll_next gave Pending, and unless poll_next gave
\* Ready(None) the adapter stays Active with the sequence as poll_next
\* left it, the same sequence with at most its first item taken.
C19_PollFrame ==
    [][ \A p \in Callers :
          /\ (Inspect(p) /\ state = Closed) =>
                /\ frames'[p].pc = "unlock"
                /\ frames'[p].ret = Some(Pending)
                /\ frames'[p].under = {"inspect"}
                /\ state' = Closed
          /\ PollUnderlying(p) =>
                /\ state'.tag = "Active"
                /\ state'.stream.id = state.stream.id
                /\ state'.stream.ready = state.stream.ready
                /\ state'.stream.items \in
                      {state.stream.items} \cup
                      (IF state.stream.items = <<>> THEN {}
                       ELSE {Tail(state.stream.items)})
          /\ Arm(p) =>
                /\ frames'[p].ret = Some(Pending) <=> frames[p].got.val.res = Pending
                /\ state' # state <=> frames[p].got.val.res = Ready(None)
                /\ state' # state => state' = Closed
      ]_vars

\* Two poll_recv calls about to return Pending: one polled a sequence that
\* was not ready, the other found the adapter Closed and polled nothing.
C19_Witness ==
    \E p, q \in Callers :
        /\ frames[p].op = "poll_recv" /\ frames[p].pc = "return"
        /\ frames[p].ret = Some(Pending)
        /\ frames[p].under = {"inspect", "poll_next"}
        /\ frames[q].op = "poll_recv" /\ frames[q].pc = "return"
        /\ frames[q].ret = Some(Pending)
        /\ frames[q].under = {"inspect"}
        /\ state = Closed

(***************************************************************************)
(* A claim about stream.rs checked under StreamSpec, where each call is    *)
(* one step: the lock makes the calls take effect one after another.       *)
(***************************************************************************)
\* C20: once set, replace or close has returned, no later poll_recv returns
\* an item of a sequence installed before that call: every item returned is
\* the first item left in the sequence installed by the latest new, set or
\* replace, with no close since, and the poll takes exactly that item off
\* it, so the items of a sequence come out in order, each once.
C20_NoStaleItems ==
    ReturnedItem =>
        /\ ~call.hist.inert
        /\ call.pre.tag = "Active"
        /\ call.pre.stream.id = call.hist.installed
        /\ call.pre.stream.items # <<>>
        /\ call.ret.val.val.message = Head(call.pre.stream.items)
        /\ state = Active([call.pre.stream EXCEPT !.items = Tail(@)])

\* An item of the second sequence, installed after the adapter had been
\* Closed, is returned.
C20_Witness ==
    /\ ReturnedItem
    /\ call.hist.everClosed
    /\ call.pre.stream.id = 2
    /\ call.ret.val.val.message = "a"
    /\ state.stream.items = <<"b">>

====
